---- MODULE Spec2Model ----
(***************************************************************************)
(* Model of the cross-chain proof container of src/pbaas/pbaas.h:          *)
(* CBaseChainObject / CChainObject<T>, CCrossChainProof,                   *)
(* CCompositeChainObject, DehydrateChainObject and the byte streams they   *)
(* are written to and read from.                                           *)
(*                                                                         *)
(* A byte stream is a sequence of numbers 0..255.  Payload types whose     *)
(* layout is fixed outside pbaas.h (CBlockHeaderAndProof,                  *)
(* CBlockHeaderProof, CPartialTransactionProof, CReserveTransfer, uint256) *)
(* are modelled as one little-endian unsigned field of a width that        *)
(* differs per type (PayloadWidth); the widths are scaled down.            *)
(***************************************************************************)
EXTENDS Integers, Sequences, FiniteSets, TLC

(***************************************************************************)
(* Bounds of the model.                                                    *)
(***************************************************************************)
\* payload contents appended by callers are drawn from 1..MaxVal (0 is the
\* default-constructed content)
MaxVal == 1
\* longest priorBlocks vector a caller appends
MaxPriors == 1
\* most chain objects that exist at a time, those of nested containers included
MaxObjs == 2
\* deepest nesting of containers inside containers
MaxDepth == 2
\* number of container variables of the caller
MaxProofs == 2
\* longest vector of object pointers the caller builds
MaxVec == 1
\* number of chain IDs that callers register
MaxChains == 3
\* largest target of a candidate block
MaxTarget == 3
\* latest time of a candidate block
MaxTime == 1
\* number of headers that qualify for submission
MaxHeaders == 2
\* number of chains a qualified header is submitted to
MaxSubmitChains == 2

\* frames of CChainObject::GetHash() that fit on the stack
MaxFrames == 3

\* a CPOSNonce scaled from 256 bits to 8: the low bits that SetPOSEntropy keeps
\* (32 of them in the program), the bits of entropy above them (96), and the
\* bits of the hash above those (128)
LowBits == 1

EntropyBits == 3

HashBits == 4

\* largest value of pastHash, txid and voutNum
MaxArg == 1

\* most allocations of one temporary buffer that are left unfreed
MaxUnfreed == 3

(***************************************************************************)
(* enum CHAIN_OBJECT_TYPES                                                 *)
(***************************************************************************)
CHAINOBJ_INVALID == 0
CHAINOBJ_HEADER == 1
CHAINOBJ_HEADER_REF == 2
CHAINOBJ_TRANSACTION_PROOF == 3
CHAINOBJ_PROOF_ROOT == 4
CHAINOBJ_PRIORBLOCKS == 5
CHAINOBJ_RESERVETRANSFER == 6
CHAINOBJ_COMPOSITEOBJECT == 7
CHAINOBJ_CROSSCHAINPROOF == 8

KnownTags == CHAINOBJ_HEADER .. CHAINOBJ_CROSSCHAINPROOF

(***************************************************************************)
(* enum of CCrossChainProof                                                *)
(***************************************************************************)
VERSION_INVALID == 0
VERSION_FIRST == 1
VERSION_CURRENT == 1
VERSION_LAST == 1

(***************************************************************************)
(* Payload values.  Every payload is a record of the same shape, so that   *)
(* payloads of different C++ types can be compared; `kind' of the chain    *)
(* object says which C++ type the payload really has.                      *)
(***************************************************************************)
ScalarKinds == {"CBlockHeaderAndProof", "CBlockHeaderProof",
                "CPartialTransactionProof", "uint256", "CReserveTransfer"}
ProofKinds == {"CCrossChainProof", "CCompositeChainObject"}

NoPayload ==
    [val |-> 0, priorBlocks |-> <<>>, pastBlockType |-> 0,
     version |-> 0, chainObjects |-> <<>>]

Scalar(v) == [NoPayload EXCEPT !.val = v]

Priors(pb, pt) == [NoPayload EXCEPT !.priorBlocks = pb, !.pastBlockType = pt]

ProofPayload(ver, objs) == [NoPayload EXCEPT !.version = ver, !.chainObjects = objs]

\* CChainObject<SERIALIZABLE>(objType, rObject); kind "CBaseChainObject" is a
\* bare CBaseChainObject, kind "nullptr" stands for a null pointer in a vector
ChainObject(objType, kind, object) ==
    [objectType |-> objType, kind |-> kind, object |-> object]

NullObject == ChainObject(CHAINOBJ_INVALID, "nullptr", NoPayload)

BaseChainObject == ChainObject(CHAINOBJ_INVALID, "CBaseChainObject", NoPayload)

(***************************************************************************)
(* Little-endian fixed-width integers, as READWRITE writes and reads them. *)
(***************************************************************************)
RECURSIVE Pow(_, _)
Pow(b, e) == IF e = 0 THEN 1 ELSE b * Pow(b, e - 1)

WriteLE(n, w) == [i \in 1..w |-> (n \div Pow(256, i - 1)) % 256]

RECURSIVE ReadLE(_)
ReadLE(bytes) ==
    IF bytes = <<>> THEN 0 ELSE Head(bytes) + 256 * ReadLE(Tail(bytes))

Drop(s, n) == SubSeq(s, n + 1, Len(s))

Take(s, n) == SubSeq(s, 1, n)

\* result of a read: ok = FALSE is a thrown std::ios_base::failure; rest is
\* the stream after the bytes consumed so far; inner: the payload is a
\* container whose own reading loop, or that of a container inside it, ended in
\* its error path
Got(v, rest) == [ok |-> TRUE, val |-> v, rest |-> rest, inner |-> FALSE]

Threw(rest) == [ok |-> FALSE, val |-> NoPayload, rest |-> rest, inner |-> FALSE]

\* CDataStream::read of w bytes: throws without consuming when too few remain
ReadInt(s, w) ==
    IF Len(s) < w THEN [ok |-> FALSE, val |-> 0, rest |-> s]
    ELSE [ok |-> TRUE, val |-> ReadLE(Take(s, w)), rest |-> Drop(s, w)]

(***************************************************************************)
(* VARINT and CompactSize of serialize.h.                                  *)
(***************************************************************************)
RECURSIVE VarIntBytes(_, _)
VarIntBytes(n, len) ==
    LET b == (n % 128) + (IF len > 0 THEN 128 ELSE 0)
    IN  IF n <= 127 THEN <<b>>
        ELSE VarIntBytes((n \div 128) - 1, len + 1) \o <<b>>

WriteVarInt(n) == VarIntBytes(n, 0)

RECURSIVE ReadVarIntFrom(_, _)
ReadVarIntFrom(s, n) ==
    IF s = <<>> THEN [ok |-> FALSE, val |-> 0, rest |-> s]
    ELSE LET ch == Head(s)
             m  == n * 128 + (ch % 128)
         IN  IF ch >= 128 THEN ReadVarIntFrom(Tail(s), m + 1)
             ELSE [ok |-> TRUE, val |-> m, rest |-> Tail(s)]

\* READWRITE(VARINT(proofSize))
ReadVarInt(s) == ReadVarIntFrom(s, 0)

WriteCompactSize(n) ==
    IF n < 253 THEN <<n>>
    ELSE IF n < 65536 THEN <<253>> \o WriteLE(n, 2)
    ELSE <<254>> \o WriteLE(n, 4)

\* throws on a short stream, a non-canonical size and a size above MAX_SIZE
\* (0x02000000); an 8-byte size is always one or the other
ReadCompactSize(s) ==
    IF s = <<>> THEN [ok |-> FALSE, val |-> 0, rest |-> s]
    ELSE LET ch == Head(s)
             t  == Tail(s)
             r2 == ReadInt(t, 2)
             r4 == ReadInt(t, 4)
         IN  IF ch < 253 THEN [ok |-> TRUE, val |-> ch, rest |-> t]
             ELSE IF ch = 253
             THEN IF ~r2.ok THEN [ok |-> FALSE, val |-> 0, rest |-> t]
                  ELSE IF r2.val < 253 THEN [ok |-> FALSE, val |-> 0, rest |-> r2.rest]
                  ELSE r2
             ELSE IF ch = 254
             THEN IF Len(t) < 4 THEN [ok |-> FALSE, val |-> 0, rest |-> t]
                  ELSE IF t[4] > 2 THEN [ok |-> FALSE, val |-> 0, rest |-> Drop(t, 4)]
                  ELSE IF r4.val < 65536 \/ r4.val > 33554432
                       THEN [ok |-> FALSE, val |-> 0, rest |-> r4.rest]
                  ELSE r4
             ELSE IF Len(t) < 8 THEN [ok |-> FALSE, val |-> 0, rest |-> t]
                  ELSE [ok |-> FALSE, val |-> 0, rest |-> Drop(t, 8)]

(***************************************************************************)
(* The payload type each tag stands for.                                   *)
(***************************************************************************)
\* DehydrateChainObject: the type the object is cast to before it is written
EncKind(tag) ==
    CASE tag = CHAINOBJ_HEADER -> "CBlockHeaderAndProof"
      [] tag = CHAINOBJ_TRANSACTION_PROOF -> "CPartialTransactionProof"
      [] tag = CHAINOBJ_PROOF_ROOT -> "uint256"
      [] tag = CHAINOBJ_HEADER_REF -> "CBlockHeaderProof"
      [] tag = CHAINOBJ_PRIORBLOCKS -> "CPriorBlocksCommitment"
      [] tag = CHAINOBJ_RESERVETRANSFER -> "CReserveTransfer"
      [] tag = CHAINOBJ_CROSSCHAINPROOF -> "CCrossChainProof"
      [] tag = CHAINOBJ_COMPOSITEOBJECT -> "CCompositeChainObject"
      [] OTHER -> "none"

\* CCrossChainProof::SerializationOp, reading: the type of the object that the
\* switch creates for the tag
DecKind(tag) ==
    CASE tag = CHAINOBJ_HEADER -> "CBlockHeaderAndProof"
      [] tag = CHAINOBJ_TRANSACTION_PROOF -> "CPartialTransactionProof"
      [] tag = CHAINOBJ_PROOF_ROOT -> "uint256"
      [] tag = CHAINOBJ_HEADER_REF -> "CBlockHeaderProof"
      [] tag = CHAINOBJ_PRIORBLOCKS -> "CPriorBlocksCommitment"
      [] tag = CHAINOBJ_RESERVETRANSFER -> "CReserveTransfer"
      [] tag = CHAINOBJ_CROSSCHAINPROOF -> "CCrossChainProof"
      [] tag = CHAINOBJ_COMPOSITEOBJECT -> "CCrossChainProof"
      [] OTHER -> "none"

\* a decoder that stores the tag of the type it created
DecTagOfCreatedType(objType) ==
    IF objType = CHAINOBJ_COMPOSITEOBJECT THEN CHAINOBJ_CROSSCHAINPROOF ELSE objType

\* the tag the decoder stores in the object it created for objType
DecTag(objType) ==
    IF objType = CHAINOBJ_COMPOSITEOBJECT THEN CHAINOBJ_COMPOSITEOBJECT ELSE objType

\* "this must remain cast/data compatible with CCompositeChainObject"
SameLayout(k1, k2) == k1 = k2 \/ (k1 \in ProofKinds /\ k2 \in ProofKinds)

\* bytes of the single field that stands for a payload of an external type
PayloadWidth(kind) ==
    CASE kind = "CBlockHeaderAndProof" -> 4
      [] kind = "CBlockHeaderProof" -> 2
      [] kind = "CPartialTransactionProof" -> 3
      [] kind = "CReserveTransfer" -> 1
      [] kind = "uint256" -> 2
      [] OTHER -> 0

(***************************************************************************)
(* Writing.  A write of an object whose real type is not the type its tag  *)
(* makes DehydrateChainObject cast it to is undefined behaviour: the       *)
(* outcome u is either Crash or the content that the foreign layout is     *)
(* read as.                                                                *)
(***************************************************************************)
Crash == -1

UBOutcomes == (0..MaxVal) \cup {Crash}

Wrote(bytes) == [crash |-> FALSE, ret |-> TRUE, bytes |-> bytes]

Crashed == [crash |-> TRUE, ret |-> FALSE, bytes |-> <<>>]

\* what a payload of another type is read as when it is cast to `kind'
Reinterpret(kind, u) ==
    IF kind = "CPriorBlocksCommitment" THEN Priors(<<>>, u)
    ELSE IF kind \in ProofKinds THEN ProofPayload(u, <<>>)
    ELSE Scalar(u)

RECURSIVE HashBytes(_)
HashBytes(hashes) ==
    IF hashes = <<>> THEN <<>>
    ELSE WriteLE(Head(hashes), PayloadWidth("uint256")) \o HashBytes(Tail(hashes))

\* CPriorBlocksCommitment::SerializationOp, writing
WritePriors(object) ==
    WriteCompactSize(Len(object.priorBlocks)) \o HashBytes(object.priorBlocks)
        \o WriteLE(object.pastBlockType, PayloadWidth("uint256"))

RECURSIVE DehydrateChainObject(_, _)
RECURSIVE SerializeObjects(_, _)
RECURSIVE SerializeProof(_, _)

\* READWRITE(object) of CChainObject<kind>
WritePayload(kind, object, u) ==
    IF kind \in ScalarKinds THEN Wrote(WriteLE(object.val, PayloadWidth(kind)))
    ELSE IF kind = "CPriorBlocksCommitment" THEN Wrote(WritePriors(object))
    ELSE SerializeProof(object, u)

DehydrateChainObject(pobj, u) ==
    IF pobj.kind = "nullptr" THEN Crashed
    ELSE IF pobj.objectType \notin KnownTags
         THEN [crash |-> FALSE, ret |-> FALSE, bytes |-> <<>>]
    ELSE LET kind == EncKind(pobj.objectType)
             body ==
                 IF SameLayout(pobj.kind, kind) THEN WritePayload(kind, pobj.object, u)
                 ELSE IF u = Crash THEN Crashed
                 ELSE WritePayload(kind, Reinterpret(kind, u), u)
         IN  IF body.crash THEN Crashed
             ELSE Wrote(WriteLE(pobj.objectType, 2) \o body.bytes)

\* for (auto &oneVal : chainObjects) DehydrateChainObject(s, oneVal);
SerializeObjects(objs, u) ==
    IF objs = <<>> THEN Wrote(<<>>)
    ELSE LET one  == DehydrateChainObject(Head(objs), u)
             more == SerializeObjects(Tail(objs), u)
         IN  IF one.crash \/ more.crash THEN Crashed
             ELSE Wrote(one.bytes \o more.bytes)

\* the count that CCrossChainProof::SerializationOp writes
ProofSize(proof) == Len(proof.chainObjects)

\* CCrossChainProof::SerializationOp, writing
SerializeProof(proof, u) ==
    LET elems == SerializeObjects(proof.chainObjects, u)
    IN  IF elems.crash THEN Crashed
        ELSE Wrote(WriteLE(proof.version, 4) \o WriteVarInt(ProofSize(proof))
                      \o elems.bytes)

(***************************************************************************)
(* Reading.                                                                *)
(***************************************************************************)
RECURSIVE ReadHashes(_, _, _)

\* the hash h was read, n hashes were still to come
HashesAfter(h, n, acc) ==
    IF ~h.ok THEN [ok |-> FALSE, val |-> acc, rest |-> h.rest]
    ELSE ReadHashes(h.rest, n - 1, Append(acc, h.val))

\* READWRITE(priorBlocks): the elements of the vector
ReadHashes(s, n, acc) ==
    IF n = 0 THEN [ok |-> TRUE, val |-> acc, rest |-> s]
    ELSE HashesAfter(ReadInt(s, PayloadWidth("uint256")), n, acc)

\* READWRITE(pastBlockType)
PriorsOfType(hs, pt) ==
    IF ~pt.ok THEN Threw(pt.rest) ELSE Got(Priors(hs.val, pt.val), pt.rest)

PriorsOfHashes(hs) ==
    IF ~hs.ok THEN Threw(hs.rest)
    ELSE PriorsOfType(hs, ReadInt(hs.rest, PayloadWidth("uint256")))

\* READWRITE(priorBlocks): the size of the vector
PriorsOfSize(cs) ==
    IF ~cs.ok THEN Threw(cs.rest) ELSE PriorsOfHashes(ReadHashes(cs.rest, cs.val, <<>>))

\* CPriorBlocksCommitment::SerializationOp, reading
ReadPriors(s) == PriorsOfSize(ReadCompactSize(s))

\* CCrossChainProof() : version(VERSION_CURRENT) {}
DefaultProof == ProofPayload(VERSION_CURRENT, <<>>)

\* DeleteOpRetObjects(chainObjects): every object is deleted and the vector
\* is left empty
DeleteOpRetObjects(chainObjects) == <<>>

\* what the reading loop has seen so far: error is the local of that name,
\* iters the iterations entered, failedAt the iteration whose read threw,
\* unknown the iterations whose tag matched no case of the switch, swallowed
\* the iterations that pushed a container whose own read had ended in its error
\* path
NoEvents == [error |-> FALSE, iters |-> 0, failedAt |-> 0, unknown |-> 0,
             swallowed |-> 0]

RECURSIVE ReadPayload(_, _)
RECURSIVE ReadObjects(_, _, _, _, _)
RECURSIVE UnserializeProof(_, _)

\* CCrossChainProof::operator= on values: s << operand;
\* DeleteOpRetObjects(chainObjects); s >> *this;
AssignProof(this, operand) ==
    UnserializeProof(SerializeProof(operand, Crash).bytes,
        [this EXCEPT !.chainObjects = DeleteOpRetObjects(@)])

\* ->object = obj;
NestedOfCopy(obj, cpy) ==
    IF cpy.threw THEN Threw(obj.rest)
    ELSE [Got(ProofPayload(cpy.version, cpy.chainObjects), obj.rest)
             EXCEPT !.inner = obj.ev.error \/ obj.ev.swallowed > 0]

\* CCrossChainProof obj; READWRITE(obj);
NestedOfProof(obj) ==
    IF obj.threw THEN Threw(obj.rest)
    ELSE NestedOfCopy(obj, AssignProof(DefaultProof,
                                       ProofPayload(obj.version, obj.chainObjects)))

\* case CHAINOBJ_CROSSCHAINPROOF / CHAINOBJ_COMPOSITEOBJECT:
\* CCrossChainProof obj; READWRITE(obj); new ...; ->object = obj;
ReadNestedProof(s) == NestedOfProof(UnserializeProof(s, DefaultProof))

\* READWRITE(obj) of a payload of one field
ScalarOf(r) == IF r.ok THEN Got(Scalar(r.val), r.rest) ELSE Threw(r.rest)

\* READWRITE(obj) of the case that the tag selects
ReadPayload(kind, s) ==
    IF kind \in ScalarKinds THEN ScalarOf(ReadInt(s, PayloadWidth(kind)))
    ELSE IF kind = "CPriorBlocksCommitment" THEN ReadPriors(s)
    ELSE ReadNestedProof(s)

\* new CChainObject<T>(); ->objectType = ...; ->object = obj;
ObjectOfPayload(objType, r) ==
    IF ~r.ok THEN [ok |-> FALSE, has |-> FALSE, obj |-> NullObject, rest |-> r.rest,
                   inner |-> FALSE]
    ELSE [ok |-> TRUE, has |-> TRUE, inner |-> r.inner,
          obj |-> ChainObject(DecTag(objType), DecKind(objType), r.val),
          rest |-> r.rest]

\* switch(objType), without a default case
ObjectOfTag(t) ==
    IF ~t.ok THEN [ok |-> FALSE, has |-> FALSE, obj |-> NullObject, rest |-> t.rest,
                   inner |-> FALSE]
    ELSE IF t.val \notin KnownTags
         THEN [ok |-> TRUE, has |-> FALSE, obj |-> NullObject, rest |-> t.rest,
               inner |-> FALSE]
    ELSE ObjectOfPayload(t.val, ReadPayload(DecKind(t.val), t.rest))

\* one pass of the body of the try block: has is pobj != nullptr
ReadOneObject(s) == ObjectOfTag(ReadInt(s, 2))

\* a loop that goes on to the next element after one has failed
LoopRunsPastError(i, proofSize, error) == i < proofSize

\* for (int i = 0; i < proofSize && !error; i++), and the break of the catch
LoopRuns(i, proofSize, error) == i < proofSize /\ ~error

\* if (pobj) chainObjects.push_back(pobj); or catch: error = true;
AfterObject(one, i, proofSize, chainObjects, ev) ==
    ReadObjects(one.rest, i + 1, proofSize,
        IF one.ok /\ one.has THEN Append(chainObjects, one.obj) ELSE chainObjects,
        IF ~one.ok
        THEN [ev EXCEPT !.error = TRUE, !.iters = @ + 1,
                        !.failedAt = IF ev.error THEN @ ELSE i + 1]
        ELSE [ev EXCEPT !.iters = @ + 1,
                        !.unknown = IF one.has THEN @ ELSE @ + 1,
                        !.swallowed = IF one.inner THEN @ + 1 ELSE @])

\* the reading loop of CCrossChainProof::SerializationOp
ReadObjects(s, i, proofSize, chainObjects, ev) ==
    IF ~LoopRuns(i, proofSize, ev.error)
    THEN [chainObjects |-> chainObjects, rest |-> s, ev |-> ev]
    ELSE AfterObject(ReadOneObject(s), i, proofSize, chainObjects, ev)

\* if (error) { ...; DeleteOpRetObjects(chainObjects); }
AfterLoop(error, chainObjects) ==
    IF error THEN DeleteOpRetObjects(chainObjects) ELSE chainObjects

\* the loop has ended
ProofOfObjects(v, n, loop) ==
    [threw |-> FALSE, version |-> v.val,
     chainObjects |-> AfterLoop(loop.ev.error, loop.chainObjects),
     rest |-> loop.rest, ev |-> loop.ev, proofSize |-> n.val]

\* READWRITE(VARINT(proofSize)) has read n
ProofOfCount(v, n, this) ==
    IF ~n.ok
    THEN [threw |-> TRUE, version |-> v.val, chainObjects |-> this.chainObjects,
          rest |-> n.rest, ev |-> NoEvents, proofSize |-> 0]
    ELSE ProofOfObjects(v, n, ReadObjects(n.rest, 0, n.val, this.chainObjects, NoEvents))

\* READWRITE(version) has read v
ProofOfVersion(v, this) ==
    IF ~v.ok
    THEN [threw |-> TRUE, version |-> this.version, chainObjects |-> this.chainObjects,
          rest |-> v.rest, ev |-> NoEvents, proofSize |-> 0]
    ELSE ProofOfCount(v, ReadVarInt(v.rest), this)

\* CCrossChainProof::SerializationOp, reading into the container `this';
\* threw: an exception left the function
UnserializeProof(s, this) == ProofOfVersion(ReadInt(s, 4), this)

\* RehydrateChainObject: s >> pNew->object is outside the try block, so a
\* failed read of the payload leaves the function as an exception
RehydratedOfPayload(objType, r) ==
    IF ~r.ok THEN [threw |-> TRUE, obj |-> NullObject, rest |-> r.rest]
    ELSE [threw |-> FALSE, obj |-> ChainObject(objType, EncKind(objType), r.val),
          rest |-> r.rest]

\* RehydrateChainObject: try { s >> objType; } catch (...) { return NULL; } and
\* the switch, which leaves retPtr NULL for a tag without a case
RehydratedOfTag(t) ==
    IF ~t.ok \/ t.val \notin KnownTags
    THEN [threw |-> FALSE, obj |-> NullObject, rest |-> t.rest]
    ELSE RehydratedOfPayload(t.val, ReadPayload(EncKind(t.val), t.rest))

\* RehydrateChainObject(s): obj = NullObject is the return value NULL
RehydrateChainObject(s) == RehydratedOfTag(ReadInt(s, 2))

\* CCrossChainProof::IsValid
IsValid(proof) == proof.version >= VERSION_FIRST \/ proof.version <= VERSION_LAST

\* CCrossChainProof::Empty
Empty(proof) == Len(proof.chainObjects) = 0

\* a TypeVector that listed the tags from the last object to the first
TypeVectorReversed(h, chainObjects) ==
    LET present == SelectSeq(chainObjects, LAMBDA id : id # 0)
    IN  [i \in 1..Len(present) |-> h[present[Len(present) + 1 - i]].objectType]

\* CCrossChainProof::TypeVector, over the pointers chainObjects into heap h:
\* null pointers are skipped
TypeVector(h, chainObjects) ==
    LET present == SelectSeq(chainObjects, LAMBDA id : id # 0)
    IN  [i \in 1..Len(present) |-> h[present[i]].objectType]

(***************************************************************************)
(* State.                                                                  *)
(*   proofs       the caller's containers: live (constructed and not yet   *)
(*                destroyed), version, chainObjects (pointers; 0 is null)  *)
(*   heap         the chain object each pointer points to                  *)
(*   allocated    the pointers that were new'ed and not deleted            *)
(*   vec          a std::vector<CBaseChainObject *> of the caller          *)
(*   s            a CDataStream that arrived from a peer                   *)
(*   ret          what the last operation did                              *)
(*   ub           undefined behaviour that the last operation met          *)
(*   crashed      the process has crashed                                  *)
(***************************************************************************)
VARIABLES proofs, heap, allocated, vec, s, ret, ub, crashed

(***************************************************************************)
(* State of CConnectedChains: the registry of merge-mined chains.          *)
(*   mergeMinedChains   chain ID -> [target, time] of its candidate block  *)
(*   mergeMinedTargets  target -> pointer to an entry of mergeMinedChains  *)
(*                      (the pointer is modelled by the chain ID)          *)
(*   cs_mergemining     the lock is held                                   *)
(*   pending            the mutation that the holder of the lock is in     *)
(*   seen               what the last read returned; racing: the read ran  *)
(*                      while another thread held the lock                 *)
(***************************************************************************)
VARIABLES mergeMinedChains, mergeMinedTargets, cs_mergemining, pending, seen

(***************************************************************************)
(* State of CConnectedChains: block submission.                            *)
(*   qualifiedHeaders      the headers queued for submission (the keys of  *)
(*                         the map; a header is identified by its hash)    *)
(*   sem_submitthread      the count of the semaphore                      *)
(*   lastSubmissionFailed  the flag of that name                           *)
(*   pc                    where the submission thread is                  *)
(*   shutdown              termination of the thread has been requested    *)
(*   batch                 the (header, chain) submissions left to make in *)
(*                         the drain in progress                           *)
(*   queued, attempted, failures history: the headers ever queued, the     *)
(*                         submissions made, the submissions that failed   *)
(***************************************************************************)
VARIABLES qualifiedHeaders, sem_submitthread, lastSubmissionFailed, pc, shutdown,
          batch, queued, attempted, failures

\* the temporary buffers that the functions of falcon512.c allocate
TempBuffers == {"sig", "tmpsd", "pubkey", "tmpmp", "tmpvv", "tmpkg"}

containers == <<proofs, heap, allocated, vec, s, ret, ub, crashed>>

registry == <<mergeMinedChains, mergeMinedTargets, cs_mergemining, pending, seen>>

submission == <<qualifiedHeaders, sem_submitthread, lastSubmissionFailed, pc, shutdown,
                batch, queued, attempted, failures>>

(***************************************************************************)
(* State of the calls into the hashing and signature code.                 *)
(*   hashCall    the call of CChainObject::GetHash() in progress: the      *)
(*               object, the frames of GetHash on the stack, the bytes     *)
(*               written to the innermost hash writer, the way the build   *)
(*               compiled the call in tail position, the value returned    *)
(*   nonce       the value of a CPOSNonce                                  *)
(*   posCall     the last call of SetPOSEntropy or CheckPOSEntropy: its    *)
(*               arguments, the low bits of the nonce before it, the value *)
(*               returned, whether its arguments are those of the last     *)
(*               SetPOSEntropy before it (last), and whether it left the   *)
(*               nonce as it was                                           *)
(*   unfreed     for each temporary buffer of falcon512.c the number of    *)
(*               allocations of it that were never freed                   *)
(*   falconCall  the last call of a function of falcon512.c: the step that *)
(*               failed in it (outcome), the value returned, the temporary *)
(*               buffers it allocated and those it freed before returning  *)
(***************************************************************************)
VARIABLES hashCall, nonce, posCall, unfreed, falconCall

library == <<hashCall, nonce, posCall, unfreed, falconCall>>

vars == <<containers, registry, submission, library>>

\* no mutation in progress
NoPending == [op |-> "none", id |-> 0, target |-> 0]

\* no read made
NoSeen == [op |-> "none", arg |-> 0, target |-> 0, chains |-> {}, racing |-> FALSE]

\* CConnectedChains(): empty maps, sem_submitthread(0), lastSubmissionFailed(0)
InitConnectedChains ==
    /\ mergeMinedChains = <<>>
    /\ mergeMinedTargets = <<>>
    /\ cs_mergemining = FALSE
    /\ pending = NoPending
    /\ seen = NoSeen
    /\ qualifiedHeaders = {}
    /\ sem_submitthread = 0
    /\ lastSubmissionFailed = FALSE
    /\ pc = "Idle"
    /\ shutdown = FALSE
    /\ batch = {}
    /\ queued = {}
    /\ attempted = {}
    /\ failures = {}

Slots == 1..MaxProofs

\* the last container variable is declared as a CCompositeChainObject
CompositeSlots == {MaxProofs}

Ids == 1..MaxObjs

Range(f) == {f[i] : i \in DOMAIN f}

NoRet ==
    [op |-> "none", threw |-> FALSE, error |-> FALSE, iters |-> 0,
     failedAt |-> 0, unknown |-> 0, proofSize |-> 0, before |-> 0,
     after |-> 0, to |-> 0, from |-> 0, count |-> 0, wrote |-> 0,
     bytes |-> <<>>, swallowed |-> 0]

DeadProof == [live |-> FALSE, version |-> VERSION_INVALID, chainObjects |-> <<>>]

\* pointers held by a container or by the caller's vector
Refs(pr, vc) ==
    (Range(vc) \cup UNION {Range(pr[p].chainObjects) : p \in Slots}) \ {0}

ObjAt(h, id) == IF id = 0 THEN NullObject ELSE h[id]

\* the container as a value: what its pointers point to
ValueOf(h, proof) ==
    ProofPayload(proof.version,
        [i \in 1..Len(proof.chainObjects) |-> ObjAt(h, proof.chainObjects[i])])

RECURSIVE Depth(_)
Depth(proof) ==
    LET inner == {Depth(proof.chainObjects[i].object) :
                     i \in {j \in DOMAIN proof.chainObjects :
                               proof.chainObjects[j].kind \in ProofKinds}}
    IN  1 + (IF inner = {} THEN 0 ELSE CHOOSE d \in inner : \A e \in inner : e <= d)

\* chain objects that an object stands for: itself and those it contains
RECURSIVE Weight(_)
RECURSIVE WeightOfAll(_)
Weight(obj) == 1 + WeightOfAll(obj.object.chainObjects)

WeightOfAll(objs) ==
    IF objs = <<>> THEN 0 ELSE Weight(Head(objs)) + WeightOfAll(Tail(objs))

RECURSIVE HeapWeight(_, _)
HeapWeight(h, al) ==
    IF al = {} THEN 0
    ELSE LET id == CHOOSE x \in al : TRUE
         IN  Weight(h[id]) + HeapWeight(h, al \ {id})

\* operator new: the lowest cells that nothing points to
RECURSIVE PickIds(_, _)
PickIds(free, n) ==
    IF n = 0 \/ free = {} THEN <<>>
    ELSE LET id == CHOOSE x \in free : \A y \in free : x <= y
         IN  <<id>> \o PickIds(free \ {id}, n - 1)

\* cells that are neither allocated nor pointed to are forgotten
Forget(h, al, pr, vc) ==
    [id \in Ids |-> IF id \in al \cup Refs(pr, vc) THEN h[id] ELSE NullObject]

\* a cast of the object to the type of its tag reads a payload of another type
TypeConfused(obj) ==
    /\ obj.objectType \in KnownTags
    /\ obj.kind # "nullptr"
    /\ ~SameLayout(obj.kind, EncKind(obj.objectType))

\* undefined behaviour of writing the container: what is read in doing so
WriteUB(proof) ==
    LET ids == Range(proof.chainObjects)
    IN  (IF 0 \in ids THEN {"null_deref"} ELSE {})
        \cup (IF (ids \ {0}) \ allocated # {} THEN {"use_after_free"} ELSE {})
        \cup (IF \E id \in ids \ {0} : TypeConfused(heap[id])
              THEN {"type_confusion"} ELSE {})

\* DeleteOpRetObjects on pointers: deleting twice is undefined behaviour
DeleteUB(ids, al) ==
    IF (Range(ids) \ {0}) \ al # {} THEN {"double_free"} ELSE {}

(***************************************************************************)
(* s >> *this for the container in slot p, whose vector is `keep' when the *)
(* read starts.  enabled is FALSE when the heap of the model is too small. *)
(***************************************************************************)
\* the objects that the read added to the vector
NewObjects(keep, res) ==
    IF res.threw \/ res.ev.error THEN <<>>
    ELSE SubSeq(res.chainObjects, Len(keep) + 1, Len(res.chainObjects))

\* the read gave res; its new objects are put into the cells ids
Stored(p, keep, al0, op, res, new, ids) ==
    LET failed == ~res.threw /\ res.ev.error
        pr   == [proofs EXCEPT ![p] =
                    [live |-> TRUE, version |-> res.version,
                     chainObjects |-> IF res.threw THEN keep
                                      ELSE IF failed THEN <<>>
                                      ELSE keep \o ids]]
        al   == IF failed THEN al0 \ Range(keep)
                ELSE IF res.threw THEN al0
                ELSE al0 \cup Range(ids)
        h    == [id \in Ids |->
                    IF ~failed /\ ~res.threw /\ id \in Range(ids)
                    THEN new[CHOOSE i \in DOMAIN ids : ids[i] = id]
                    ELSE heap[id]]
    IN  [enabled |-> \/ res.threw
                     \/ failed
                     \/ /\ Len(new) = Len(ids)
                        /\ HeapWeight(heap, al0) + WeightOfAll(new) <= MaxObjs,
         proofs |-> pr, allocated |-> al, heap |-> Forget(h, al, pr, vec),
         rest |-> res.rest,
         ub |-> IF failed THEN DeleteUB(keep, al0) ELSE {},
         ret |-> [NoRet EXCEPT !.op = op, !.threw = res.threw,
                     !.error = res.ev.error, !.iters = res.ev.iters,
                     !.failedAt = res.ev.failedAt, !.unknown = res.ev.unknown,
                     !.swallowed = res.ev.swallowed,
                     !.proofSize = res.proofSize, !.before = Len(keep),
                     !.after = Len(pr[p].chainObjects), !.to = p]]

StoredNew(p, keep, al0, op, res, new) ==
    Stored(p, keep, al0, op, res, new,
           PickIds(Ids \ (al0 \cup Refs([proofs EXCEPT ![p].chainObjects = keep], vec)),
                   Len(new)))

StoredResult(p, keep, al0, op, res) ==
    StoredNew(p, keep, al0, op, res, NewObjects(keep, res))

ReadInto(p, keep, al0, bytes, op) ==
    StoredResult(p, keep, al0, op,
        UnserializeProof(bytes,
            ValueOf(heap, [proofs[p] EXCEPT !.chainObjects = keep])))

(***************************************************************************)
(* Inputs of the operations.                                               *)
(***************************************************************************)
Contents == 1..MaxVal

PriorInputs ==
    {Priors(pb, pt) : pb \in UNION {[1..n -> Contents] : n \in 0..MaxPriors},
                      pt \in Contents}

\* the Version argument of the constructor from a vector
VersionArgs == {VERSION_CURRENT, VERSION_LAST + 1}

\* objects a caller puts into a vector: a bare CBaseChainObject() and a
\* well-formed proof root
VecObjects ==
    {BaseChainObject}
        \cup {ChainObject(CHAINOBJ_PROOF_ROOT, "uint256", Scalar(v)) : v \in Contents}

\* the value an altered byte of a stream takes: as a tag, it is no member of
\* CHAIN_OBJECT_TYPES
UnknownTag == CHAINOBJ_CROSSCHAINPROOF + 1

(***************************************************************************)
(* Construction, copy, assignment, destruction.                            *)
(***************************************************************************)
\* no container constructed, nothing allocated
InitProofs ==
    /\ proofs = [p \in Slots |-> DeadProof]
    /\ heap = [id \in Ids |-> NullObject]
    /\ allocated = {}
    /\ vec = <<>>
    /\ ret = NoRet
    /\ ub = {}
    /\ crashed = FALSE
    /\ InitConnectedChains
    /\ hashCall = [this |-> 0, frames |-> 0, hw |-> <<>>, build |-> "none",
                   returned |-> FALSE, ret |-> <<>>]
    /\ posCall = [op |-> "none", args |-> <<>>, low |-> 0, ret |-> FALSE,
                  repeated |-> FALSE, unchanged |-> FALSE, last |-> <<>>]
    /\ unfreed = [b \in TempBuffers |-> 0]
    /\ falconCall = [fn |-> "none", outcome |-> "none", ret |-> 0,
                     allocated |-> {}, freed |-> {}]

Init ==
    /\ InitProofs
    /\ s = <<>>
    /\ nonce = 0

\* the process dies in the middle of an operation: nothing of it is left
Dies ==
    /\ crashed' = TRUE
    /\ proofs' = [p \in Slots |-> DeadProof]
    /\ heap' = [id \in Ids |-> NullObject]
    /\ allocated' = {}
    /\ vec' = <<>>
    /\ s' = <<>>
    /\ ret' = NoRet
    /\ UNCHANGED <<registry, submission, library>>

\* outcomes of the undefined behaviour that writing container p may meet
OutcomesOf(p) == IF WriteUB(proofs[p]) = {} THEN {0} ELSE UBOutcomes

\* s << proofs[p]
WriteOf(p, u) ==
    IF u = Crash THEN Crashed ELSE SerializeProof(ValueOf(heap, proofs[p]), u)

\* CCrossChainProof() / CCompositeChainObject()
Construct(p) ==
    /\ ~crashed
    /\ ~proofs[p].live
    /\ proofs' = [proofs EXCEPT ![p] =
                     [live |-> TRUE, version |-> VERSION_CURRENT, chainObjects |-> <<>>]]
    /\ ret' = NoRet
    /\ ub' = {} /\ UNCHANGED <<heap, allocated, vec, s, crashed, registry, submission, library>>

\* CCrossChainProof(const std::vector<CBaseChainObject *> &objects, int Version)
ConstructFromVector(p, Version) ==
    /\ ~crashed
    /\ ~proofs[p].live
    /\ proofs' = [proofs EXCEPT ![p] =
                     [live |-> TRUE, version |-> Version, chainObjects |-> vec]]
    /\ ret' = NoRet
    /\ ub' = {} /\ UNCHANGED <<heap, allocated, vec, s, crashed, registry, submission, library>>

\* CCrossChainProof(const CCrossChainProof &oldObj)
CopyConstruct(p, q) ==
    /\ ~crashed
    /\ ~proofs[p].live
    /\ proofs[q].live
    /\ \E u \in OutcomesOf(q) :
         \E enc \in {WriteOf(q, u)} :
         \E r \in {ReadInto(p, <<>>, allocated, enc.bytes, "copy")} :
             /\ ub' = WriteUB(proofs[q]) \cup (IF enc.crash THEN {} ELSE r.ub)
             /\ IF enc.crash THEN Dies
                ELSE /\ r.enabled
                     /\ proofs' = r.proofs
                     /\ heap' = r.heap
                     /\ allocated' = r.allocated
                     /\ ret' = [r.ret EXCEPT !.from = q]
                     /\ UNCHANGED <<vec, s, crashed, registry, submission, library>>

\* CCrossChainProof::operator=
Assign(p, q) ==
    /\ ~crashed
    /\ proofs[p].live
    /\ proofs[q].live
    /\ \E u \in OutcomesOf(q) :
         \E enc \in {WriteOf(q, u)} :
         \E old \in {proofs[p].chainObjects} :
         \E r \in {ReadInto(p, DeleteOpRetObjects(old), allocated \ Range(old),
                            enc.bytes, "assign")} :
             /\ ub' = WriteUB(proofs[q])
                         \cup (IF enc.crash THEN {} ELSE DeleteUB(old, allocated) \cup r.ub)
             /\ IF enc.crash THEN Dies
                ELSE /\ r.enabled
                     /\ proofs' = r.proofs
                     /\ heap' = r.heap
                     /\ allocated' = r.allocated
                     /\ ret' = [r.ret EXCEPT !.from = q]
                     /\ UNCHANGED <<vec, s, crashed, registry, submission, library>>

\* ~CCrossChainProof()
Destroy(p) ==
    /\ ~crashed
    /\ proofs[p].live
    /\ LET old == proofs[p].chainObjects
           pr  == [proofs EXCEPT ![p] = DeadProof]
           al  == allocated \ Range(old)
       IN  /\ proofs' = pr
           /\ allocated' = al
           /\ heap' = Forget(heap, al, pr, vec)
           /\ ub' = DeleteUB(old, allocated)
    /\ ret' = NoRet
    /\ UNCHANGED <<vec, s, crashed, registry, submission, library>>

(***************************************************************************)
(* operator<<                                                              *)
(***************************************************************************)
\* a container that inserted new objects before the ones it holds
PushFront(p, obj) ==
    LET free == Ids \ (allocated \cup Refs(proofs, vec))
        id   == CHOOSE x \in free : \A y \in free : x <= y
    IN  /\ ~crashed
        /\ proofs[p].live
        /\ free # {}
        /\ HeapWeight(heap, allocated) + Weight(obj) <= MaxObjs
        /\ proofs' = [proofs EXCEPT ![p].chainObjects = <<id>> \o @]
        /\ heap' = [heap EXCEPT ![id] = obj]
        /\ allocated' = allocated \cup {id}
        /\ ret' = NoRet
        /\ UNCHANGED <<vec, s, crashed, registry, submission, library>>

\* chainObjects.push_back(new CChainObject<T>(objType, rObject))
PushBack(p, obj) ==
    LET free == Ids \ (allocated \cup Refs(proofs, vec))
        id   == CHOOSE x \in free : \A y \in free : x <= y
    IN  /\ ~crashed
        /\ proofs[p].live
        /\ free # {}
        /\ HeapWeight(heap, allocated) + Weight(obj) <= MaxObjs
        /\ proofs' = [proofs EXCEPT ![p].chainObjects = Append(@, id)]
        /\ heap' = [heap EXCEPT ![id] = obj]
        /\ allocated' = allocated \cup {id}
        /\ ret' = NoRet
        /\ UNCHANGED <<vec, s, crashed, registry, submission, library>>

\* operator<<(const CPartialTransactionProof &partialTxProof)
AppendPartialTransactionProof(p, v) ==
    /\ PushBack(p, ChainObject(CHAINOBJ_TRANSACTION_PROOF, "CPartialTransactionProof",
                               Scalar(v)))
    /\ ub' = {}

\* operator<<(const CBlockHeaderAndProof &headerRefProof)
AppendBlockHeaderAndProof(p, v) ==
    /\ PushBack(p, ChainObject(CHAINOBJ_HEADER_REF, "CBlockHeaderAndProof", Scalar(v)))
    /\ ub' = {}

\* operator<<(const CBlockHeaderProof &headerProof)
AppendBlockHeaderProof(p, v) ==
    /\ PushBack(p, ChainObject(CHAINOBJ_HEADER, "CBlockHeaderProof", Scalar(v)))
    /\ ub' = {}

\* operator<<(const CPriorBlocksCommitment &priorBlocks)
AppendPriorBlocks(p, priorBlocks) ==
    /\ PushBack(p, ChainObject(CHAINOBJ_PRIORBLOCKS, "CPriorBlocksCommitment", priorBlocks))
    /\ ub' = {}

\* operator<<(const uint256 &proofRoot)
AppendProofRoot(p, v) ==
    /\ PushBack(p, ChainObject(CHAINOBJ_PROOF_ROOT, "uint256", Scalar(v)))
    /\ ub' = {}

\* operator<<(const CReserveTransfer &reserveTransfer)
AppendReserveTransfer(p, v) ==
    /\ PushBack(p, ChainObject(CHAINOBJ_RESERVETRANSFER, "CReserveTransfer", Scalar(v)))
    /\ ub' = {}

\* new CChainObject<T>(objType, q): the payload is copy-constructed from q,
\* that is, written and read back
AppendNested(p, q, objType, kind) ==
    /\ ~crashed
    /\ proofs[q].live
    /\ \E u \in OutcomesOf(q) :
         \E enc \in {WriteOf(q, u)} :
         \E cpy \in {UnserializeProof(enc.bytes, DefaultProof)} :
         \E obj \in {ProofPayload(cpy.version, cpy.chainObjects)} :
             /\ ub' = WriteUB(proofs[q])
             /\ IF enc.crash THEN proofs[p].live /\ Dies
                ELSE /\ Depth(obj) < MaxDepth
                     /\ PushBack(p, ChainObject(objType, kind, obj))

\* operator<<(const CCrossChainProof &crossChainProof)
AppendCrossChainProof(p, q) ==
    AppendNested(p, q, CHAINOBJ_CROSSCHAINPROOF, "CCrossChainProof")

\* CCompositeChainObject::operator<<(const CCompositeChainObject &)
AppendComposite(p, q) ==
    /\ p \in CompositeSlots
    /\ q \in CompositeSlots
    /\ AppendNested(p, q, CHAINOBJ_COMPOSITEOBJECT, "CCompositeChainObject")

(***************************************************************************)
(* Streams.                                                                *)
(***************************************************************************)
\* DehydrateChainObject calls of one write that returned true
Written(proof, u) ==
    Cardinality({i \in DOMAIN proof.chainObjects :
                    DehydrateChainObject(proof.chainObjects[i], u).ret})

\* CDataStream s; s << proofs[p];
Serialize(p) ==
    /\ ~crashed
    /\ proofs[p].live
    /\ \E u \in OutcomesOf(p) :
         \E enc \in {WriteOf(p, u)} :
         \E val \in {ValueOf(heap, proofs[p])} :
             /\ ub' = WriteUB(proofs[p])
             /\ IF enc.crash THEN Dies
                ELSE /\ ret' = [NoRet EXCEPT !.op = "serialize", !.from = p,
                                   !.count = ProofSize(val), !.wrote = Written(val, u),
                                   !.bytes = enc.bytes]
                     /\ UNCHANGED <<proofs, heap, allocated, vec, s, crashed, registry, submission, library>>

\* s >> proofs[p]; for the stream s that arrived
Unserialize(p) ==
    /\ ~crashed
    /\ proofs[p].live
    /\ \E r \in {ReadInto(p, proofs[p].chainObjects, allocated, s, "unserialize")} :
           /\ r.enabled
           /\ proofs' = r.proofs
           /\ heap' = r.heap
           /\ allocated' = r.allocated
           /\ ret' = r.ret
           /\ s' = r.rest
           /\ ub' = r.ub
    /\ UNCHANGED <<vec, crashed, registry, submission, library>>

(***************************************************************************)
(* The caller's vector of object pointers.                                 *)
(***************************************************************************)
\* objects.push_back(new ...)
VecPush(obj) ==
    LET free == Ids \ (allocated \cup Refs(proofs, vec))
        id   == CHOOSE x \in free : \A y \in free : x <= y
    IN  /\ ~crashed
        /\ Len(vec) < MaxVec
        /\ free # {}
        /\ HeapWeight(heap, allocated) + Weight(obj) <= MaxObjs
        /\ vec' = Append(vec, id)
        /\ heap' = [heap EXCEPT ![id] = obj]
        /\ allocated' = allocated \cup {id}
        /\ ret' = NoRet
        /\ ub' = {} /\ UNCHANGED <<proofs, s, crashed, registry, submission, library>>

\* DeleteOpRetObjects(objects) by the caller
VecDelete ==
    /\ ~crashed
    /\ vec # <<>>
    /\ LET al == allocated \ Range(vec)
       IN  /\ allocated' = al
           /\ vec' = <<>>
           /\ heap' = Forget(heap, al, proofs, <<>>)
           /\ ub' = DeleteUB(vec, allocated)
    /\ ret' = NoRet
    /\ UNCHANGED <<proofs, s, crashed, registry, submission, library>>

\* objects.clear() once a container has taken every object over
VecRelease ==
    /\ ~crashed
    /\ vec # <<>>
    /\ Range(vec) \ {0} \subseteq Refs(proofs, <<>>)
    /\ vec' = <<>>
    /\ ret' = NoRet
    /\ ub' = {} /\ UNCHANGED <<proofs, heap, allocated, s, crashed, registry, submission, library>>

Next ==
    \/ \E p \in Slots : Construct(p)
    \/ \E p \in Slots, v \in VersionArgs : ConstructFromVector(p, v)
    \/ \E p, q \in Slots : CopyConstruct(p, q)
    \/ \E p, q \in Slots : Assign(p, q)
    \/ \E p \in Slots : Destroy(p)
    \/ \E p \in Slots, v \in Contents : AppendPartialTransactionProof(p, v)
    \/ \E p \in Slots, v \in Contents : AppendBlockHeaderAndProof(p, v)
    \/ \E p \in Slots, v \in Contents : AppendBlockHeaderProof(p, v)
    \/ \E p \in Slots, pb \in PriorInputs : AppendPriorBlocks(p, pb)
    \/ \E p \in Slots, v \in Contents : AppendProofRoot(p, v)
    \/ \E p \in Slots, v \in Contents : AppendReserveTransfer(p, v)
    \/ \E p, q \in Slots : AppendCrossChainProof(p, q)
    \/ \E p, q \in Slots : AppendComposite(p, q)
    \/ \E p \in Slots : Serialize(p)
    \/ \E obj \in VecObjects : VecPush(obj)
    \/ VecDelete
    \/ VecRelease

Spec == Init /\ [][Next]_vars

(***************************************************************************)
(* A container that reads a stream sent by a peer.  The peer sends the     *)
(* encoding of a container it built, cut short or with one byte altered.   *)
(***************************************************************************)
PeerSimple ==
    {ChainObject(tag, EncKind(tag), Scalar(v)) :
        tag \in {CHAINOBJ_HEADER, CHAINOBJ_TRANSACTION_PROOF, CHAINOBJ_PROOF_ROOT,
                 CHAINOBJ_HEADER_REF, CHAINOBJ_RESERVETRANSFER},
        v \in Contents}
        \cup {ChainObject(CHAINOBJ_PRIORBLOCKS, "CPriorBlocksCommitment", pb) :
                 pb \in PriorInputs}

RECURSIVE PeerObjects(_, _)
RECURSIVE PeerSequences(_, _)

\* objects that stand for at most w chain objects and nest containers at most
\* d - 1 deep
PeerObjects(w, d) ==
    IF w = 0 THEN {}
    ELSE PeerSimple
           \cup (IF d <= 1 THEN {}
                 ELSE {ChainObject(tag, EncKind(tag), ProofPayload(VERSION_CURRENT, objs)) :
                          tag \in {CHAINOBJ_CROSSCHAINPROOF, CHAINOBJ_COMPOSITEOBJECT},
                          objs \in PeerSequences(w - 1, d - 1)})

\* sequences of such objects that stand for at most w chain objects together
PeerSequences(w, d) ==
    {<<>>} \cup UNION {{<<o>> \o rest : rest \in PeerSequences(w - Weight(o), d)} :
                         o \in PeerObjects(w, d)}

PeerVersions == {VERSION_INVALID, VERSION_CURRENT, VERSION_LAST + 1}

PeerProofs ==
    {ProofPayload(v, objs) : v \in PeerVersions, objs \in PeerSequences(MaxObjs, MaxDepth)}

\* what a stream may have become when it arrives: itself, a prefix of it, or
\* itself with one byte after the version altered
Tamperings(bytes) ==
    {bytes}
        \cup {Take(bytes, n) : n \in 0..(Len(bytes) - 1)}
        \cup {[bytes EXCEPT ![i] = UnknownTag] : i \in 5..Len(bytes)}

WireInputs == UNION {Tamperings(SerializeProof(proof, 0).bytes) : proof \in PeerProofs}

\* the container that receives
WireSlots == {1}

InitWire ==
    /\ InitProofs
    /\ s \in WireInputs
    /\ nonce = 0

NextWire ==
    \/ \E p \in WireSlots : Construct(p)
    \/ \E p \in WireSlots, v \in Contents : AppendProofRoot(p, v)
    \/ \E p \in WireSlots : Unserialize(p)

SpecWire == InitWire /\ [][NextWire]_vars

(***************************************************************************)
(* The registry of merge-mined chains.  LowestTarget and                   *)
(* GetMergeMinedChains are defined in pbaas.h; the other operations are    *)
(* declared there and modelled from their specification: a mutation takes  *)
(* cs_mergemining, changes one map, then the other, and releases the lock. *)
(***************************************************************************)
ChainIDs == 1..MaxChains

\* std::map::erase of the keys ks
Without(f, ks) == [k \in DOMAIN f \ ks |-> f[k]]

\* the keys of mergeMinedTargets whose pointer is to the entry of chain id
TargetsOf(id) == {t \in DOMAIN mergeMinedTargets : mergeMinedTargets[t] = id}

\* AddMergedBlock(blkData), up to the insertion into mergeMinedChains: nothing
\* is done when the chain is registered with a block that is not older
AddMergedBlock(id, target, time) ==
    /\ ~cs_mergemining
    /\ seen' = NoSeen
    /\ IF id \in DOMAIN mergeMinedChains /\ mergeMinedChains[id].time >= time
       THEN UNCHANGED <<mergeMinedChains, mergeMinedTargets, cs_mergemining, pending>>
       ELSE /\ mergeMinedChains' =
                  [c \in DOMAIN mergeMinedChains \cup {id} |->
                      IF c = id THEN [target |-> target, time |-> time]
                      ELSE mergeMinedChains[c]]
            /\ mergeMinedTargets' = Without(mergeMinedTargets, TargetsOf(id))
            /\ cs_mergemining' = TRUE
            /\ pending' = [op |-> "add", id |-> id, target |-> target]
    /\ UNCHANGED <<containers, submission, library>>

\* AddMergedBlock, from mergeMinedTargets.insert to the release of the lock: a
\* std::map holds one entry for a key, insert leaves an existing one
AddMergedBlockInsertsTarget ==
    /\ pending.op = "add"
    /\ mergeMinedTargets' =
          IF pending.target \in DOMAIN mergeMinedTargets THEN mergeMinedTargets
          ELSE [k \in DOMAIN mergeMinedTargets \cup {pending.target} |->
                   IF k = pending.target THEN pending.id ELSE mergeMinedTargets[k]]
    /\ cs_mergemining' = FALSE
    /\ pending' = NoPending
    /\ seen' = NoSeen
    /\ UNCHANGED <<mergeMinedChains, containers, submission, library>>

\* RemoveMergedBlock(chainID), up to the removal from mergeMinedTargets: nothing
\* is done for a chain that is not registered
RemoveMergedBlock(id) ==
    /\ ~cs_mergemining
    /\ seen' = NoSeen
    /\ IF id \notin DOMAIN mergeMinedChains
       THEN UNCHANGED <<mergeMinedTargets, cs_mergemining, pending>>
       ELSE /\ mergeMinedTargets' = Without(mergeMinedTargets, TargetsOf(id))
            /\ cs_mergemining' = TRUE
            /\ pending' = [op |-> "remove", id |-> id, target |-> 0]
    /\ UNCHANGED <<mergeMinedChains, containers, submission, library>>

\* RemoveMergedBlock, from mergeMinedChains.erase to the release of the lock
RemoveMergedBlockErasesChain ==
    /\ pending.op = "remove"
    /\ mergeMinedChains' = Without(mergeMinedChains, {pending.id})
    /\ cs_mergemining' = FALSE
    /\ pending' = NoPending
    /\ seen' = NoSeen
    /\ UNCHANGED <<mergeMinedTargets, containers, submission, library>>

\* PruneOldChains(pruneBefore): removes the chains whose block is older
PruneOldChains(pruneBefore) ==
    /\ ~cs_mergemining
    /\ \E old \in {{c \in DOMAIN mergeMinedChains :
                      mergeMinedChains[c].time < pruneBefore}} :
          /\ mergeMinedTargets' =
                Without(mergeMinedTargets,
                        {k \in DOMAIN mergeMinedTargets : mergeMinedTargets[k] \in old})
          /\ mergeMinedChains' = Without(mergeMinedChains, old)
    /\ seen' = NoSeen
    /\ UNCHANGED <<cs_mergemining, pending, containers, submission, library>>

\* LowestTarget(): the first key of mergeMinedTargets, or 0; it takes no lock,
\* and a read that runs while another thread mutates the map is a data race,
\* which may return anything
LowestTarget ==
    /\ \E v \in (IF cs_mergemining THEN 0..MaxTarget
                 ELSE IF DOMAIN mergeMinedTargets = {} THEN {0}
                 ELSE {k \in DOMAIN mergeMinedTargets :
                          \A k2 \in DOMAIN mergeMinedTargets : k <= k2}) :
          seen' = [NoSeen EXCEPT !.op = "LowestTarget", !.target = v,
                                 !.racing = cs_mergemining]
    /\ UNCHANGED <<mergeMinedChains, mergeMinedTargets, cs_mergemining, pending,
                   containers, submission, library>>

\* GetMergeMinedChains(): LOCK(cs_mergemining), then every chain of the map
GetMergeMinedChains ==
    /\ ~cs_mergemining
    /\ seen' = [NoSeen EXCEPT !.op = "GetMergeMinedChains",
                              !.chains = DOMAIN mergeMinedChains]
    /\ UNCHANGED <<mergeMinedChains, mergeMinedTargets, cs_mergemining, pending,
                   containers, submission, library>>

\* GetChainInfo(chainID, rpcChainData): under the lock, whether the chain is
\* registered
GetChainInfo(id) ==
    /\ ~cs_mergemining
    /\ seen' = [NoSeen EXCEPT !.op = "GetChainInfo", !.arg = id,
                              !.chains = {id} \cap DOMAIN mergeMinedChains]
    /\ UNCHANGED <<mergeMinedChains, mergeMinedTargets, cs_mergemining, pending,
                   containers, submission, library>>

\* a CombineBlocks that took a proof value equal to the target as too high
SatisfiedBelow(chains, value) == {c \in DOMAIN chains : value < chains[c].target}

\* the chains whose target a header of this proof value satisfies
Satisfied(chains, value) == {c \in DOMAIN chains : value <= chains[c].target}

\* CombineBlocks(bh): under the lock, the registered chains that the header
\* satisfies
CombineBlocks(value) ==
    /\ ~cs_mergemining
    /\ seen' = [NoSeen EXCEPT !.op = "CombineBlocks", !.arg = value,
                              !.chains = Satisfied(mergeMinedChains, value)]
    /\ UNCHANGED <<mergeMinedChains, mergeMinedTargets, cs_mergemining, pending,
                   containers, submission, library>>

NextRegistry ==
    \/ \E id \in ChainIDs, target \in 1..MaxTarget, time \in 0..MaxTime :
          AddMergedBlock(id, target, time)
    \/ AddMergedBlockInsertsTarget
    \/ \E id \in ChainIDs : RemoveMergedBlock(id)
    \/ RemoveMergedBlockErasesChain
    \/ \E pruneBefore \in 1..MaxTime : PruneOldChains(pruneBefore)
    \/ LowestTarget
    \/ GetMergeMinedChains
    \/ \E id \in ChainIDs : GetChainInfo(id)
    \/ \E value \in 1..(MaxTarget + 1) : CombineBlocks(value)

SpecRegistry == Init /\ [][NextRegistry]_vars

(***************************************************************************)
(* Block submission.  The members qualifiedHeaders, sem_submitthread and   *)
(* lastSubmissionFailed are declared in pbaas.h; QueueNewBlockHeader,      *)
(* SubmissionThread and SubmitQualifiedBlocks are declared there and       *)
(* modelled from their specification.  A header is submitted to the        *)
(* chains 1..MaxSubmitChains; a submission succeeds or fails.              *)
(***************************************************************************)
\* a QueueNewBlockHeader that did not post the semaphore
QueueWithoutPost(bh) ==
    /\ bh \notin queued
    /\ qualifiedHeaders' = qualifiedHeaders \cup {bh}
    /\ queued' = queued \cup {bh}
    /\ UNCHANGED <<sem_submitthread, lastSubmissionFailed, pc, shutdown, batch,
                   attempted, failures, containers, registry, library>>

\* QueueNewBlockHeader(bh): the header is put into qualifiedHeaders and the
\* semaphore is posted once
QueueNewBlockHeader(bh) ==
    /\ bh \notin queued
    /\ qualifiedHeaders' = qualifiedHeaders \cup {bh}
    /\ sem_submitthread' = sem_submitthread + 1
    /\ queued' = queued \cup {bh}
    /\ UNCHANGED <<lastSubmissionFailed, pc, shutdown, batch, attempted, failures,
                   containers, registry, library>>

\* SubmissionThread: sem_submitthread.wait() returns, which takes one count, and
\* the thread takes the queued headers to submit them
SubmissionThreadWakes ==
    /\ pc = "Idle"
    /\ sem_submitthread > 0
    /\ sem_submitthread' = sem_submitthread - 1
    /\ pc' = "Draining"
    /\ batch' = qualifiedHeaders \X (1..MaxSubmitChains)
    /\ qualifiedHeaders' = {}
    /\ UNCHANGED <<lastSubmissionFailed, shutdown, queued, attempted, failures,
                   containers, registry, library>>

\* a drain that gave up at the first submission that failed
SubmitStopsAtFailure ==
    /\ pc = "Draining"
    /\ batch # {}
    /\ \E x \in {y \in batch : \A z \in batch :
                    y[1] < z[1] \/ (y[1] = z[1] /\ y[2] <= z[2])} :
       \E ok \in BOOLEAN :
          /\ attempted' = attempted \cup {x}
          /\ failures' = IF ok THEN failures ELSE failures \cup {x}
          /\ lastSubmissionFailed' = (lastSubmissionFailed \/ ~ok)
          /\ batch' = IF ok THEN batch \ {x} ELSE {}
    /\ UNCHANGED <<qualifiedHeaders, sem_submitthread, pc, shutdown, queued,
                   containers, registry, library>>

\* SubmitQualifiedBlocks, one submission: the next header, in the order of the
\* map, to its next chain; a failure sets lastSubmissionFailed
SubmitQualifiedBlocks ==
    /\ pc = "Draining"
    /\ batch # {}
    /\ \E x \in {y \in batch : \A z \in batch :
                    y[1] < z[1] \/ (y[1] = z[1] /\ y[2] <= z[2])} :
       \E ok \in BOOLEAN :
          /\ attempted' = attempted \cup {x}
          /\ failures' = IF ok THEN failures ELSE failures \cup {x}
          /\ lastSubmissionFailed' = (lastSubmissionFailed \/ ~ok)
          /\ batch' = batch \ {x}
    /\ UNCHANGED <<qualifiedHeaders, sem_submitthread, pc, shutdown, queued,
                   containers, registry, library>>

\* SubmissionThread: the drain is over, the thread waits on the semaphore again
SubmissionThreadWaits ==
    /\ pc = "Draining"
    /\ batch = {}
    /\ pc' = "Idle"
    /\ UNCHANGED <<qualifiedHeaders, sem_submitthread, lastSubmissionFailed, shutdown,
                   batch, queued, attempted, failures, containers, registry, library>>

\* the process asks the submission thread to terminate
RequestShutdown ==
    /\ ~shutdown
    /\ shutdown' = TRUE
    /\ UNCHANGED <<qualifiedHeaders, sem_submitthread, lastSubmissionFailed, pc,
                   batch, queued, attempted, failures, containers, registry, library>>

\* a thread that observed the request only when its wait on the semaphore
\* returned with a count
ExitsWhenPosted ==
    /\ pc = "Idle"
    /\ shutdown
    /\ sem_submitthread > 0
    /\ pc' = "Exited"
    /\ UNCHANGED <<qualifiedHeaders, sem_submitthread, lastSubmissionFailed, shutdown,
                   batch, queued, attempted, failures, containers, registry, library>>

\* SubmissionThread: the request is observed while the thread is idle, waiting
\* on the semaphore or about to; the loop is left
SubmissionThreadExits ==
    /\ pc = "Idle"
    /\ shutdown
    /\ pc' = "Exited"
    /\ UNCHANGED <<qualifiedHeaders, sem_submitthread, lastSubmissionFailed, shutdown,
                   batch, queued, attempted, failures, containers, registry, library>>

NextSubmission ==
    \/ \E bh \in 1..MaxHeaders : QueueNewBlockHeader(bh)
    \/ SubmissionThreadWakes
    \/ SubmitQualifiedBlocks
    \/ SubmissionThreadWaits
    \/ RequestShutdown
    \/ SubmissionThreadExits

SpecSubmission == Init /\ [][NextSubmission]_vars

\* the submission thread is scheduled, and a submission returns; nothing is
\* assumed of the threads that queue headers or request the shutdown
FairSubmission ==
    /\ SpecSubmission
    /\ WF_vars(SubmissionThreadWakes)
    /\ WF_vars(SubmitQualifiedBlocks)
    /\ WF_vars(SubmissionThreadWaits)
    /\ WF_vars(SubmissionThreadExits)

(***************************************************************************)
(* CChainObject<SERIALIZABLE>::GetHash().  Its body writes the payload to  *)
(* a hash writer and then calls GetHash() again; no path of it returns     *)
(* before that call.  A build compiles the call in tail position as a call *)
(* (a new frame, until the stack is exhausted), as a jump (the frame is    *)
(* reused for ever), or, the recursion having no end and no effect         *)
(* outside the frame, elides it and returns a value that nothing           *)
(* determines.                                                             *)
(***************************************************************************)
\* pobj->GetHash(), up to the call in its return statement:
\* CHashWriter hw(...); hw << object;
GetHash(id, build) ==
    /\ ~crashed
    /\ hashCall.frames = 0
    /\ id \in allocated
    /\ heap[id].kind \notin {"nullptr", "CBaseChainObject"}
    /\ hashCall' = [this |-> id, frames |-> 1,
                    hw |-> WritePayload(heap[id].kind, heap[id].object, Crash).bytes,
                    build |-> build, returned |-> FALSE, ret |-> <<>>]
    /\ UNCHANGED <<containers, registry, submission, nonce, posCall, unfreed, falconCall>>

\* return GetHash(); and the body of the call it makes, up to the next one
GetHashCallsItself ==
    /\ ~crashed
    /\ hashCall.frames > 0
    /\ IF hashCall.build = "call"
       THEN IF hashCall.frames < MaxFrames
            THEN /\ hashCall' = [hashCall EXCEPT !.frames = @ + 1]
                 /\ UNCHANGED crashed
            ELSE /\ crashed' = TRUE
                 /\ UNCHANGED hashCall
       ELSE IF hashCall.build = "jump"
       THEN UNCHANGED <<hashCall, crashed>>
       ELSE /\ \E v \in {<<>>, hashCall.hw} :
                 hashCall' = [hashCall EXCEPT !.frames = 0, !.returned = TRUE,
                                              !.ret = v]
            /\ UNCHANGED crashed
    /\ UNCHANGED <<proofs, heap, allocated, vec, s, ret, ub, registry, submission,
                   nonce, posCall, unfreed, falconCall>>

\* a thread builds containers and asks an object for its hash; while the call
\* runs the thread does nothing else
NextHash ==
    \/ \E p \in Slots : hashCall.frames = 0 /\ Construct(p)
    \/ \E p \in Slots, v \in Contents : hashCall.frames = 0 /\ AppendProofRoot(p, v)
    \/ \E p \in Slots, pb \in PriorInputs :
           hashCall.frames = 0 /\ AppendPriorBlocks(p, pb)
    \/ \E p, q \in Slots : hashCall.frames = 0 /\ AppendCrossChainProof(p, q)
    \/ \E id \in Ids, build \in {"call", "jump", "elided"} : GetHash(id, build)
    \/ GetHashCallsItself

\* a call that was made keeps running
FairHash == Init /\ [][NextHash]_vars /\ WF_vars(GetHashCallsItself)

(***************************************************************************)
(* CPOSNonce (nonce.cpp).  arith_uint256 values are naturals below         *)
(* 2^(LowBits + EntropyBits + HashBits); x & mask of the low bits is       *)
(* x % 2^bits, x << n is x * 2^n cut to the width.                         *)
(***************************************************************************)
\* a | b of arith_uint256
RECURSIVE Or(_, _)
Or(a, b) ==
    IF a = 0 THEN b
    ELSE IF b = 0 THEN a
    ELSE (IF a % 2 = 1 \/ b % 2 = 1 THEN 1 ELSE 0) + 2 * Or(a \div 2, b \div 2)

\* hashWriter << x1 << ... ; hashWriter.GetHash(): a value of the width of the
\* nonce that the written values determine
RECURSIVE VerusHash(_)
VerusHash(written) ==
    IF written = <<>> THEN 5
    ELSE (7 * VerusHash(Take(written, Len(written) - 1)) + 3 * written[Len(written)] + 1)
             % Pow(2, LowBits + EntropyBits + HashBits)

\* a SetPOSEntropy that forgets the shift of the entropy above the low bits
EntropyNonceUnshifted(this, pastHash, txid, voutNum) ==
    Or(this % Pow(2, LowBits),
       VerusHash(<<pastHash, txid, voutNum>>) % Pow(2, EntropyBits))

\* arNonce: (UintToArith256(*this) & 0xffffffff) |
\*          ((UintToArith256(hashWriter.GetHash()) & <low 96 bits>) << 32)
EntropyNonce(this, pastHash, txid, voutNum) ==
    Or(this % Pow(2, LowBits),
       (VerusHash(<<pastHash, txid, voutNum>>) % Pow(2, EntropyBits)) * Pow(2, LowBits))

\* CPOSNonce::SetPOSEntropy:
\* *this = CPOSNonce(hash(arNonce) << 128 | arNonce)
SetPOSEntropy(pastHash, txid, voutNum) ==
    /\ \E arNonce \in {EntropyNonce(nonce, pastHash, txid, voutNum)} :
       \E v \in {Or((VerusHash(<<arNonce>>) * Pow(2, LowBits + EntropyBits))
                       % Pow(2, LowBits + EntropyBits + HashBits), arNonce)} :
           /\ nonce' = v
           /\ posCall' = [op |-> "set", args |-> <<pastHash, txid, voutNum>>,
                          low |-> nonce % Pow(2, LowBits), ret |-> FALSE,
                          repeated |-> posCall.last = <<pastHash, txid, voutNum>>,
                          unchanged |-> v = nonce,
                          last |-> <<pastHash, txid, voutNum>>]
    /\ UNCHANGED <<containers, registry, submission, hashCall, unfreed, falconCall>>

\* CPOSNonce::CheckPOSEntropy:
\* return UintToArith256(*this) == (hash(arNonce) << 128 | arNonce)
CheckPOSEntropy(pastHash, txid, voutNum) ==
    /\ \E arNonce \in {EntropyNonce(nonce, pastHash, txid, voutNum)} :
           posCall' = [op |-> "check", args |-> <<pastHash, txid, voutNum>>,
                       low |-> nonce % Pow(2, LowBits),
                       ret |-> nonce = Or((VerusHash(<<arNonce>>)
                                               * Pow(2, LowBits + EntropyBits))
                                           % Pow(2, LowBits + EntropyBits + HashBits),
                                          arNonce),
                       repeated |-> posCall.last = <<pastHash, txid, voutNum>>,
                       unchanged |-> TRUE,
                       last |-> posCall.last]
    /\ UNCHANGED <<containers, registry, submission, hashCall, nonce, unfreed,
                   falconCall>>

\* a nonce of any value
InitNonce ==
    /\ InitProofs
    /\ s = <<>>
    /\ nonce \in 0..(Pow(2, LowBits + EntropyBits + HashBits) - 1)

NextNonce ==
    \/ \E pastHash, txid, voutNum \in 0..MaxArg : SetPOSEntropy(pastHash, txid, voutNum)
    \/ \E pastHash, txid, voutNum \in 0..MaxArg : CheckPOSEntropy(pastHash, txid, voutNum)

SpecNonce == InitNonce /\ [][NextNonce]_vars

(***************************************************************************)
(* The Falcon-512 functions of falcon512.c.  The library call that fails,  *)
(* if one does, is an input; a buffer that a call allocated and did not    *)
(* free stays allocated for the life of the process.                       *)
(***************************************************************************)
\* cc_MakeFalcon512Signature: five buffers are allocated; each of the three
\* failure paths returns 0 at once, the success path frees the five
cc_MakeFalcon512Signature(outcome) ==
    /\ \A b \in {"sig", "tmpsd", "pubkey", "tmpmp", "tmpvv"} : unfreed[b] < MaxUnfreed
    /\ \E al \in {{"sig", "tmpsd", "pubkey", "tmpmp", "tmpvv"}} :
       \E fr \in {IF outcome = "ok" THEN al ELSE {}} :
           /\ falconCall' = [fn |-> "cc_MakeFalcon512Signature", outcome |-> outcome,
                             ret |-> IF outcome = "ok" THEN 1 ELSE 0,
                             allocated |-> al, freed |-> fr]
           /\ unfreed' = [b \in TempBuffers |->
                             IF b \in al \ fr THEN unfreed[b] + 1 ELSE unfreed[b]]
    /\ UNCHANGED <<containers, registry, submission, hashCall, nonce, posCall>>

\* cc_MakeFalcon512KeyPair: tmpkg is allocated; both paths return without a free
cc_MakeFalcon512KeyPair(outcome) ==
    /\ unfreed["tmpkg"] < MaxUnfreed
    /\ falconCall' = [fn |-> "cc_MakeFalcon512KeyPair", outcome |-> outcome,
                      ret |-> IF outcome = "ok" THEN 1 ELSE 0,
                      allocated |-> {"tmpkg"}, freed |-> {}]
    /\ unfreed' = [unfreed EXCEPT !["tmpkg"] = @ + 1]
    /\ UNCHANGED <<containers, registry, submission, hashCall, nonce, posCall>>

\* cc_VerifyFalcon512Key: tmpvv is allocated; both paths return without a free
cc_VerifyFalcon512Key(outcome) ==
    /\ unfreed["tmpvv"] < MaxUnfreed
    /\ falconCall' = [fn |-> "cc_VerifyFalcon512Key", outcome |-> outcome,
                      ret |-> IF outcome = "ok" THEN 1 ELSE 0,
                      allocated |-> {"tmpvv"}, freed |-> {}]
    /\ unfreed' = [unfreed EXCEPT !["tmpvv"] = @ + 1]
    /\ UNCHANGED <<containers, registry, submission, hashCall, nonce, posCall>>

NextFalcon ==
    \/ \E outcome \in {"falcon_make_public", "falcon_sign_dyn", "falcon_verify", "ok"} :
           cc_MakeFalcon512Signature(outcome)
    \/ \E outcome \in {"falcon_keygen_make", "ok"} : cc_MakeFalcon512KeyPair(outcome)
    \/ \E outcome \in {"falcon_verify", "ok"} : cc_VerifyFalcon512Key(outcome)

SpecFalcon == Init /\ [][NextFalcon]_vars

(***************************************************************************)
(* Properties of the container and of its encoding.                        *)
(***************************************************************************)
\* structural equality of containers: version, number of objects, and at each
\* position the tag and the payload
RECURSIVE SameProof(_, _)
SameProof(a, b) ==
    /\ a.version = b.version
    /\ Len(a.chainObjects) = Len(b.chainObjects)
    /\ \A i \in DOMAIN a.chainObjects :
         LET x == a.chainObjects[i]
             y == b.chainObjects[i]
         IN  /\ x.objectType = y.objectType
             /\ SameLayout(x.kind, y.kind)
             /\ IF x.kind \in ProofKinds /\ y.kind \in ProofKinds
                THEN SameProof(x.object, y.object)
                ELSE x.object = y.object

\* the objects of container p are objects that operator<< creates, owned by p
\* alone
BuiltByAppends(p) ==
    /\ proofs[p].live
    /\ \A id \in Range(proofs[p].chainObjects) :
         /\ id \in allocated
         /\ id \notin Range(vec)
         /\ heap[id].objectType \in KnownTags
         /\ \A q \in Slots \ {p} : id \notin Range(proofs[q].chainObjects)

\* decoding, into a fresh container, what writing container p with outcome u
\* produced gives p back
RoundTrips(p, u) ==
    \A enc \in {WriteOf(p, u)} :
    \A dec \in {UnserializeProof(enc.bytes, DefaultProof)} :
        /\ ~enc.crash
        /\ ~dec.threw
        /\ ~dec.ev.error
        /\ SameProof(ProofPayload(dec.version, dec.chainObjects),
                     ValueOf(heap, proofs[p]))

\* C1: every container built by appends, the empty one and those with nested
\* containers included, is given back by decoding its encoding: same version,
\* same number of objects, same tag and equal payload at each position.
C1_RoundTrip ==
    \A p \in Slots : BuiltByAppends(p) => \A u \in OutcomesOf(p) : RoundTrips(p, u)

\* C2: the payload type of every stored object that carries a known tag is the
\* type that both the encode dispatch and the decode dispatch handle under
\* that tag.
C2_TagAgreesWithPayload ==
    \A p \in Slots : \A id \in Range(proofs[p].chainObjects) :
        (proofs[p].live /\ id \in allocated /\ heap[id].objectType \in KnownTags)
            => /\ SameLayout(heap[id].kind, EncKind(heap[id].objectType))
               /\ SameLayout(heap[id].kind, DecKind(heap[id].objectType))

\* C3: when the read of an element throws, the loop stops at that element and
\* the container ends with no object at all.
C3_FailureDiscardsEverything ==
    ret.error => /\ ret.after = 0
                 /\ proofs[ret.to].chainObjects = <<>>
                 /\ ret.iters = ret.failedAt

\* a read into a container that held an object failed at an element that was
\* neither the first nor the last of the announced ones
C3_Witness ==
    /\ ret.op = "unserialize"
    /\ ret.error
    /\ ret.before > 0
    /\ ret.failedAt > 1
    /\ ret.failedAt < ret.proofSize

\* C4: a decode that met a tag outside CHAIN_OBJECT_TYPES fails and recovers
\* no object; it never completes as a success that left the element out.
C4_UnknownTagIsMalformed ==
    ret.unknown > 0 => ret.error /\ ret.after = 0

\* what the caller of a decode into container p can observe of it
Observed(p) ==
    [threw |-> ret.threw, version |-> proofs[p].version,
     chainObjects |-> proofs[p].chainObjects]

\* what the caller observes of a successful decode of a container without
\* elements
EmptyDecodes ==
    {[threw |-> d.threw, version |-> d.version, chainObjects |-> d.chainObjects] :
        d \in {UnserializeProof(SerializeProof(ProofPayload(v, <<>>), 0).bytes,
                                DefaultProof) : v \in PeerVersions}}

\* C5: a decode in which an element failed shows its caller an error: what the
\* caller observes differs from what a successful decode of a container
\* without elements shows.
C5_FailureIsSurfaced ==
    (ret.op = "unserialize" /\ ret.error) => Observed(ret.to) \notin EmptyDecodes

\* the streams that writing container p can produce
EncodingsOf(p) ==
    {WriteOf(p, u).bytes : u \in {o \in OutcomesOf(p) : ~WriteOf(p, o).crash}}

\* C6: after a copy construction or an assignment, the copy encodes to the
\* bytes that the source encodes to.
C6_CopyFidelity ==
    ret.op \in {"copy", "assign"}
        => /\ EncodingsOf(ret.to) # {}
           /\ EncodingsOf(ret.to) \subseteq EncodingsOf(ret.from)

\* C7: no object is pointed to by two live containers, and no operation frees
\* an object a second time or reads a freed one.
C7_ExclusiveOwnership ==
    /\ \A p, q \in Slots :
         (p # q /\ proofs[p].live /\ proofs[q].live)
            => Range(proofs[p].chainObjects) \cap Range(proofs[q].chainObjects) = {}
    /\ "double_free" \notin ub
    /\ "use_after_free" \notin ub

\* C8: IsValid() is true exactly for the versions from VERSION_FIRST to
\* VERSION_LAST.
C8_IsValidIffSupported ==
    \A p \in Slots :
        proofs[p].live
            => (IsValid(proofs[p])
                    <=> proofs[p].version \in VERSION_FIRST..VERSION_LAST)

NestedTags == {CHAINOBJ_CROSSCHAINPROOF, CHAINOBJ_COMPOSITEOBJECT}

\* the nested containers that live containers hold
NestedObjects ==
    {heap[id] : id \in {i \in UNION {Range(proofs[p].chainObjects) : p \in Slots} :
                           i \in allocated /\ heap[i].objectType \in NestedTags
                               /\ heap[i].kind \in ProofKinds}}

\* obj under the other of the two tags of nested containers
Retagged(obj) ==
    LET tag == CHOOSE x \in NestedTags : x # obj.objectType
    IN  ChainObject(tag, EncKind(tag), obj.object)

\* C9: a nested container is written with the same payload bytes under the
\* tag COMPOSITEOBJECT as under the tag CROSSCHAINPROOF, after a tag of two
\* bytes, and reading either gives the same nested contents back under the
\* tag it was written with.
C9_CompositeEquivalence ==
    \A obj \in NestedObjects : \A u \in UBOutcomes \ {Crash} :
        \A a \in {DehydrateChainObject(obj, u)} :
        \A b \in {DehydrateChainObject(Retagged(obj), u)} :
        \A ra \in {ReadOneObject(a.bytes)} :
        \A rb \in {ReadOneObject(b.bytes)} :
            /\ Take(a.bytes, 2) = WriteLE(obj.objectType, 2)
            /\ Take(b.bytes, 2) = WriteLE(Retagged(obj).objectType, 2)
            /\ Drop(a.bytes, 2) = Drop(b.bytes, 2)
            /\ ra.has /\ rb.has
            /\ ra.obj.objectType = obj.objectType
            /\ rb.obj.objectType = Retagged(obj).objectType
            /\ ra.obj.object = rb.obj.object
            /\ SameProof(ra.obj.object, obj.object)

\* a container holds a composite object whose nested container is not empty
C9_Witness ==
    \E obj \in NestedObjects :
        /\ obj.objectType = CHAINOBJ_COMPOSITEOBJECT
        /\ obj.object.chainObjects # <<>>

\* C10: the count that the encoding of a container announces is the number of
\* element encodings that follow it.
C10_CountIsNumberOfElements ==
    ret.op = "serialize"
        => /\ ReadInt(ret.bytes, 4).val = proofs[ret.from].version
           /\ ReadVarInt(Drop(ret.bytes, 4)).val = ret.count
           /\ ret.count = ret.wrote

\* a step in which one of the operator<< overloads runs on container p
Appends(p) ==
    \/ \E v \in Contents : AppendPartialTransactionProof(p, v)
    \/ \E v \in Contents : AppendBlockHeaderAndProof(p, v)
    \/ \E v \in Contents : AppendBlockHeaderProof(p, v)
    \/ \E pb \in PriorInputs : AppendPriorBlocks(p, pb)
    \/ \E v \in Contents : AppendProofRoot(p, v)
    \/ \E v \in Contents : AppendReserveTransfer(p, v)
    \/ \E q \in Slots : AppendCrossChainProof(p, q)
    \/ \E q \in Slots : AppendComposite(p, q)

\* C11: every append adds exactly one object, at the end of the sequence, and
\* leaves the version and the tag, payload and position of every object that
\* was appended before as they were.
\* (ret' = NoRet and vec' = vec are conjuncts of PushBack, the step of every
\* append that returns)
C11_AppendAddsOneAtEnd ==
    [][\A p \in Slots : (~crashed' /\ ret' = NoRet /\ vec' = vec /\ Appends(p)) =>
          /\ Len(proofs'[p].chainObjects) = Len(proofs[p].chainObjects) + 1
          /\ SubSeq(proofs'[p].chainObjects, 1, Len(proofs[p].chainObjects))
                 = proofs[p].chainObjects
          /\ proofs'[p].chainObjects[Len(proofs'[p].chainObjects)]
                 \in allocated' \ Range(proofs[p].chainObjects)
          /\ proofs'[p].version = proofs[p].version
          /\ \A id \in Range(proofs[p].chainObjects) \cap allocated :
                 /\ id \in allocated'
                 /\ heap'[id] = heap[id]]_vars

\* a container holding two appended objects of different tags
C11_Witness ==
    \E p \in Slots :
        /\ BuiltByAppends(p)
        /\ Len(proofs[p].chainObjects) = 2
        /\ heap[proofs[p].chainObjects[1]].objectType
              # heap[proofs[p].chainObjects[2]].objectType

\* C12: TypeVector lists one tag for each object that the container holds, in
\* the order of the sequence: entry i is the tag of the i-th object.
C12_TypeVectorListsTags ==
    \A p \in Slots :
        (proofs[p].live /\ Range(proofs[p].chainObjects) \subseteq allocated) =>
            \A tv \in {TypeVector(heap, proofs[p].chainObjects)} :
            \A val \in {ValueOf(heap, proofs[p])} :
                /\ Len(tv) = Len(val.chainObjects)
                /\ \A i \in DOMAIN val.chainObjects :
                       tv[i] = val.chainObjects[i].objectType

\* a container of two objects whose TypeVector has two different entries
C12_Witness ==
    \E p \in Slots :
        /\ proofs[p].live
        /\ Range(proofs[p].chainObjects) \subseteq allocated
        /\ \E tv \in {TypeVector(heap, proofs[p].chainObjects)} :
               Len(tv) = 2 /\ tv[1] # tv[2]

(***************************************************************************)
(* Properties of the registry of merge-mined chains.                       *)
(***************************************************************************)
\* C13: LowestTarget returns the smallest target of the target index, and it
\* returns the zero target exactly when the index holds no target.
C13_LowestTargetIsSmallest ==
    seen.op = "LowestTarget" =>
        /\ seen.target = 0 <=> DOMAIN mergeMinedTargets = {}
        /\ DOMAIN mergeMinedTargets # {} =>
              /\ seen.target \in DOMAIN mergeMinedTargets
              /\ \A k \in DOMAIN mergeMinedTargets : seen.target <= k

\* C14: no read of the registry runs while a mutation that holds
\* cs_mergemining is between its change of one map and its change of the other.
C14_ReadsHoldTheLock ==
    seen.op # "none" => ~seen.racing

\* C15: whenever no mutation is in progress, every entry of the target index
\* points to a registered chain and the target of every registered chain is a
\* key of the target index.
C15_IndexAgreesWithChains ==
    ~cs_mergemining =>
        /\ \A k \in DOMAIN mergeMinedTargets :
              mergeMinedTargets[k] \in DOMAIN mergeMinedChains
        /\ \A c \in DOMAIN mergeMinedChains :
              mergeMinedChains[c].target \in DOMAIN mergeMinedTargets

\* C16: CombineBlocks reports a chain exactly when the chain is registered and
\* the proof value of the header is at most the target of the chain.
C16_CombineReportsSatisfiedChains ==
    seen.op = "CombineBlocks" =>
        \A c \in ChainIDs :
            c \in seen.chains <=>
                /\ c \in DOMAIN mergeMinedChains
                /\ seen.arg <= mergeMinedChains[c].target

\* three chains of targets T1 < T2 < T3 and a header of a proof value above T1
\* and at most T2: the chains of T2 and T3 are reported, the chain of T1 is not
C16_Witness ==
    /\ seen.op = "CombineBlocks"
    /\ DOMAIN mergeMinedChains = {1, 2, 3}
    /\ \A c \in {1, 2, 3} : mergeMinedChains[c].target = c
    /\ seen.arg = 2
    /\ seen.chains = {2, 3}

(***************************************************************************)
(* Properties of block submission.                                         *)
(***************************************************************************)
\* C17: the count of the semaphore is never negative and never above the
\* number of headers queued, and, as long as no shutdown is requested, every
\* header that was queued is eventually submitted to each of its chains.
C17_QueuedHeadersAreSubmitted ==
    /\ [](sem_submitthread \in 0..Cardinality(queued))
    /\ \A bh \in 1..MaxHeaders :
          (bh \in queued) ~>
              (shutdown \/ \A c \in 1..MaxSubmitChains : <<bh, c>> \in attempted)

\* two headers were queued before the thread woke: it woke once, one count is
\* left, and it submitted both headers to both chains
C17_Witness ==
    /\ queued = 1..MaxHeaders
    /\ Cardinality(queued) > 1
    /\ sem_submitthread = Cardinality(queued) - 1
    /\ pc = "Idle"
    /\ ~shutdown
    /\ attempted = queued \X (1..MaxSubmitChains)

\* C18: a submission that failed has set lastSubmissionFailed, which stays set,
\* and has not ended the drain: every header the thread took is submitted, or
\* is still to be submitted in this drain, to each of its chains, and nothing
\* is left to submit when the thread is idle again.
C18_FailureDoesNotStopTheDrain ==
    /\ failures # {} => lastSubmissionFailed
    /\ pc # "Draining" => batch = {}
    /\ \A bh \in queued \ qualifiedHeaders :
       \A c \in 1..MaxSubmitChains : <<bh, c>> \in attempted \cup batch

\* the first submission of a drain of two headers failed, the others were made,
\* and the thread is idle again
C18_Witness ==
    /\ pc = "Idle"
    /\ lastSubmissionFailed
    /\ failures = {<<1, 1>>}
    /\ sem_submitthread = 1
    /\ attempted = (1..2) \X (1..MaxSubmitChains)

C20_NestedFailureFailsTheOuter ==
    (ret.op = "unserialize" /\ ret.swallowed > 0) =>
        /\ ret.error
        /\ proofs[ret.to].chainObjects = <<>>

(***************************************************************************)
(* Properties of DehydrateChainObject and RehydrateChainObject.            *)
(***************************************************************************)
\* C21: for every chain object of the program, DehydrateChainObject returns
\* false and writes nothing when the tag is not one of the eight known tags;
\* otherwise it writes the object, and RehydrateChainObject of what was written
\* returns an object of the same tag, of the payload type of that tag and of
\* the same payload.  RehydrateChainObject of a stream too short for a tag
\* returns null.
C21_DehydrateThenRehydrate ==
    \A id \in allocated :
    \A u \in (IF TypeConfused(heap[id]) THEN UBOutcomes ELSE {0}) :
    \A d \in {DehydrateChainObject(heap[id], u)} :
    \A r \in {RehydrateChainObject(d.bytes)} :
        IF heap[id].objectType \notin KnownTags
        THEN ~d.ret /\ d.bytes = <<>> /\ ~r.threw /\ r.obj = NullObject
        ELSE /\ ~d.crash
             /\ d.ret
             /\ ~r.threw
             /\ r.rest = <<>>
             /\ r.obj.objectType = heap[id].objectType
             /\ r.obj.kind = EncKind(heap[id].objectType)
             /\ SameLayout(r.obj.kind, heap[id].kind)
             /\ IF heap[id].kind \in ProofKinds
                THEN SameProof(r.obj.object, heap[id].object)
                ELSE r.obj.object = heap[id].object


(***************************************************************************)
(* Properties of a decode into a container that holds objects.             *)
(***************************************************************************)
\* C22: a decode replaces the contents of the container: after s >> container
\* ended without error on a container that held objects, the container holds
\* exactly the objects that the decode created (one for each iteration whose
\* tag matched a case), not the previous objects followed by them.
C22_DecodeReplacesContents ==
    (ret.op = "unserialize" /\ ~ret.threw /\ ~ret.error /\ ret.before > 0) =>
        /\ ret.after = ret.iters - ret.unknown
        /\ Len(proofs[ret.to].chainObjects) = ret.iters - ret.unknown

(***************************************************************************)
(* Properties of CChainObject::GetHash().                                  *)
(***************************************************************************)
\* C23: a call of GetHash() on an object terminates, and the value it returns
\* is the hash of the bytes of the object's payload (the bytes written to the
\* hash writer).
C23_GetHashTerminates ==
    (hashCall.frames > 0) ~> (hashCall.returned /\ hashCall.ret = hashCall.hw)

(***************************************************************************)
(* Properties of the entropy of a proof-of-stake nonce.                    *)
(***************************************************************************)
\* C24: for every nonce and all arguments, SetPOSEntropy leaves the low bits of
\* the nonce as they were; CheckPOSEntropy with the arguments of the last
\* SetPOSEntropy returns true; and a SetPOSEntropy with the arguments of the
\* SetPOSEntropy before it leaves the nonce unchanged.
C24_EntropyIsCheckedAndStable ==
    /\ posCall.op = "set" => nonce % Pow(2, LowBits) = posCall.low
    /\ (posCall.op = "check" /\ posCall.repeated) => posCall.ret
    /\ (posCall.op = "set" /\ posCall.repeated) => posCall.unchanged

\* a SetPOSEntropy changed a nonce, was repeated with the same arguments, and
\* CheckPOSEntropy was called with them
C24_Witness ==
    /\ posCall.op = "check"
    /\ posCall.repeated
    /\ posCall.ret
    /\ nonce % Pow(2, LowBits) = 1
    /\ nonce \div Pow(2, LowBits + EntropyBits) > 0

(***************************************************************************)
(* Properties of the buffers of the Falcon-512 functions.                  *)
(***************************************************************************)
\* C25: every temporary buffer that cc_MakeFalcon512Signature,
\* cc_MakeFalcon512KeyPair or cc_VerifyFalcon512Key allocated is freed before
\* the function returns, on the success path and on every failure path: no
\* allocation of a temporary buffer is left unfreed.
C25_TemporariesAreFreed ==
    /\ falconCall.allocated \subseteq falconCall.freed
    /\ \A b \in TempBuffers : unfreed[b] = 0

====
